---- MODULE Spec2Model ----
(***************************************************************************)
(* Conversation orchestration of the emergency assistants: the LangGraph   *)
(* generate/tools loop of the domain agents (medical, police, electricity, *)
(* fire share one shape), the triage agent and the follow-up agent, the    *)
(* MongoDB checkpoint store they are compiled with, and the relational     *)
(* case-record store the tools write to.                                    *)
(*                                                                         *)
(* A compiled graph persists one checkpoint per super-step: after the      *)
(* input has been applied, after every generate node and after every tools *)
(* node.  Each request works on the state it loaded; a checkpoint write    *)
(* stores the request's whole state as the thread's latest checkpoint.     *)
(***************************************************************************)
EXTENDS Integers, Sequences, FiniteSets, TLC

(* ------------------------------ bounds --------------------------------- *)
\* turns (first attempts and retries together) started in one behaviour
MaxTurns == 2
\* ToolCalls the language model emits in one behaviour
MaxToolCalls == 2
\* ToolCalls carried by one assistant message
MaxCalls == 2
\* provider / index / database failures and process crashes in one behaviour
MaxFaults == 1
\* history resets (delete-chat and clear-conversation requests) in one behaviour
MaxResets == 1
\* authority status updates and notification approvals in one behaviour
MaxUpdates == 2
\* values written to an emergency_type channel in one behaviour of the reducer
MaxWrites == 4
\* messages of a log handed to the formatter on its own
MaxLog == 4
\* ToolCalls of the domain agent in one behaviour of a conversation that ends
\* in a submission
MaxDomainCalls == 3
\* case records in the store when the authority's status updates begin
MaxCases == 2

(* ----------------------------- constants ------------------------------- *)
\* generate and assistant pass state["messages"][-6:] to the model
WindowSize == 6
\* super-steps one graph.stream / graph.invoke may run: the config the
\* callers pass sets no recursion_limit, so the library default applies
RecursionLimit == 25

Reqs == {"r1", "r2"}

\* one thread per graph: a domain agent thread "<domain>_<user>", the
\* triage thread "triage_<user>" and a follow-up thread
Threads == {"med", "tri", "fol"}

Kind(t) == CASE t = "med" -> "domain" [] t = "tri" -> "triage" [] OTHER -> "followup"

NoId == <<0, 0>>
None == "None"

\* a loop that never runs out of steps
WithinRecursionLimit_Always(steps) == TRUE

\* the graph loop goes on while the super-steps run are below the limit
WithinRecursionLimit(steps) == steps < RecursionLimit

(* ------------------------------ messages ------------------------------- *)
HumanMessage(u) ==
    [role |-> "user", content |-> "utterance", calls |-> <<>>, tcid |-> NoId, cid |-> 0, utt |-> u]

AIMessage(content, calls) ==
    [role |-> "ai", content |-> content, calls |-> calls, tcid |-> NoId, cid |-> 0, utt |-> 0]

\* a Tool message that carries the tool's name where the call id belongs
ToolMessage_NameAsId(content, tool_call_id, cid) ==
    [role |-> "tool", content |-> content, calls |-> <<>>, tcid |-> <<0, tool_call_id[2]>>, cid |-> cid, utt |-> 0]

ToolMessage(content, tool_call_id, cid) ==
    [role |-> "tool", content |-> content, calls |-> <<>>, tcid |-> tool_call_id, cid |-> cid, utt |-> 0]

(* ------------------------------- tools --------------------------------- *)
\* tools_by_name of each agent module
tools_by_name(kind) ==
    CASE kind = "domain"  -> {"info_retriever", "submit_case"}
      [] kind = "triage"  -> {"classify_emergency_type"}
      [] OTHER            -> {"mark_case_resolved"}

\* what the language model may put in one ToolCall: a registered tool with
\* its arguments, a registered tool without them, or a name that is in no
\* tool table.  arg is the string argument (query, emergency_type; None:
\* left out or of the wrong type), case the emergency_id argument of the
\* follow-up tool (0: left out).
LLMCallChoices(kind, eid) ==
    CASE kind = "domain"  -> { [name |-> "info_retriever", arg |-> "query", case |-> 0],
                               [name |-> "info_retriever", arg |-> None, case |-> 0],
                               [name |-> "submit_case", arg |-> None, case |-> 0],
                               [name |-> "unknown_tool", arg |-> None, case |-> 0] }
      [] kind = "triage"  -> { [name |-> "classify_emergency_type", arg |-> "Medical", case |-> 0],
                               [name |-> "classify_emergency_type", arg |-> "Police", case |-> 0],
                               [name |-> "classify_emergency_type", arg |-> None, case |-> 0],
                               [name |-> "unknown_tool", arg |-> None, case |-> 0] }
      [] OTHER            -> { [name |-> "mark_case_resolved", arg |-> "medical", case |-> eid],
                               [name |-> "mark_case_resolved", arg |-> None, case |-> 0],
                               [name |-> "unknown_tool", arg |-> None, case |-> 0] }

\* the ToolCall lists of length n; the i-th call of the assistant message at
\* log position pos gets the id <<pos, i>>
ToolCallLists(kind, eid, pos, n) ==
    { [i \in 1..n |-> [id |-> <<pos, i>>, name |-> f[i].name, arg |-> f[i].arg, case |-> f[i].case]] :
        f \in [1..n -> LLMCallChoices(kind, eid)] }

\* what llm_with_tools.invoke may return: plain content, or ToolCalls
LLMOutputs(kind, eid, pos, budget) ==
    { AIMessage("reply", <<>>) } \cup
    { AIMessage("", calls) :
        calls \in UNION { ToolCallLists(kind, eid, pos, n) :
                            n \in 1..(IF budget < MaxCalls THEN budget ELSE MaxCalls) } }

SubmitOkText  == "Case submitted successfully. Case ID: <id>. Case has been submitted successfully."
SubmitErrText == "Case submitted successfully. Case ID: None. Failed to submit case"

\* the sentences of the content custom_tool_node gives a Tool message:
\* f"Case submitted successfully. Case ID: {result['case_id']}. {result['message']}"
\* for a submit_case call, the tool's own text for any other call
Sentences(content) ==
    CASE content = SubmitOkText ->
           <<"Case submitted successfully", "Case ID: <id>", "Case has been submitted successfully">>
      [] content = SubmitErrText ->
           <<"Case submitted successfully", "Case ID: None", "Failed to submit case">>
      [] OTHER -> <<content>>

\* what the structured extraction may hand back for a conversation: every
\* field of the schemas is Optional, location stands for them
CaseDrafts == { [location |-> "address"], [location |-> None] }

\* save_<domain>_emergency: one new row with the draft's fields, its id a
\* fresh uuid
save_emergency(cases, domain, user_id, data) ==
    Append(cases, [domain |-> domain, user_id |-> user_id, status |-> "NOT_ASSIGNED",
                   location |-> data.location])

\* submit_<domain>_case: extraction, then the insert; an exception of either
\* is caught and turned into an error result.  Returns the result and the
\* case table.
submit_case(cases, data, fails) ==
    IF fails
    THEN [case_id |-> 0, message |-> SubmitErrText, cases |-> cases]
    ELSE LET saved == save_emergency(cases, "medical", "default_user", data)
         IN  [case_id |-> Len(saved), message |-> SubmitOkText, cases |-> saved]

\* the chunks vector_store.add_documents puts into the index when the agent
\* module is imported
SourceChunks == {"chunk1", "chunk2"}

\* a retriever that also adds the query to the index it searched
info_retriever_indexing(docs, query) ==
    [observation |-> IF docs = {} THEN "" ELSE "documents", index |-> docs \cup {query}]

\* <domain>_emergency_info_retriever: a similarity search over the index,
\* the chunks found joined into one string; the index is only read
info_retriever(docs, query) ==
    [observation |-> IF docs = {} THEN "" ELSE "documents", index |-> docs]

\* the columns of FireEmergencyReport that save_fire_emergency names
FireReportColumns ==
    {"id", "user_id", "status", "reporter_name", "reporter_phone", "location", "fire_type",
     "severity_level", "time_started", "people_at_risk", "building_details", "hazards_present",
     "created_at", "updated_at"}

MissingArgsText == "Error: Missing emergency_id or emergency_type parameters"

\* EmergencyStatus, in the order of a case's life
Statuses == <<"NOT_ASSIGNED", "IN_PROGRESS", "REQUESTED_FOR_RESOLUTION", "RESOLVED">>

\* create_notification: one new row, unread and without approval
create_notification(notifs, user_id, notification_type, emergency_id, emergency_type) ==
    Append(notifs, [user_id |-> user_id, notification_type |-> notification_type,
                    emergency_id |-> emergency_id, emergency_type |-> emergency_type,
                    is_read |-> "false", is_approved |-> None])

\* get_user_notifications: the rows whose user_id is the one asked for
get_user_notifications(notifs, user_id) ==
    { n \in 1..Len(notifs) : notifs[n].user_id = user_id }

\* update_notification_approval
update_notification_approval(notifs, notification_id, is_approved) ==
    [notifs EXCEPT ![notification_id].is_approved = is_approved]

\* update_emergency_status: FALSE when the type is unknown, the row is
\* absent or the database raises; else the row's status is overwritten
update_emergency_status(cases, emergency_id, emergency_type, new_status, fails) ==
    IF \/ fails
       \/ emergency_type \notin {"medical", "police", "electricity", "fire"}
       \/ emergency_id \notin 1..Len(cases)
    THEN [success |-> FALSE, cases |-> cases]
    ELSE IF cases[emergency_id].domain # emergency_type
    THEN [success |-> FALSE, cases |-> cases]
    ELSE [success |-> TRUE,
          cases |-> [cases EXCEPT ![emergency_id].status = new_status]]

\* resolve_emergency_case
resolve_emergency_case(cases, emergency_id, emergency_type, fails) ==
    LET upd == update_emergency_status(cases, emergency_id, emergency_type, "RESOLVED", fails)
    IN  [message |-> IF upd.success THEN "resolved" ELSE "Failed to resolve",
         cases |-> upd.cases]

\* Python truth value of an Optional[str]
Truthy(v) == v \notin {None, ""}

\* a reducer that prefers the earlier value when both sides hold one
keep_first(left, right) ==
    IF Truthy(left) /\ Truthy(right) THEN left
    ELSE IF Truthy(left) THEN left
    ELSE IF Truthy(right) THEN right
    ELSE None

\* keep_last, the reducer of TriageState.emergency_type
keep_last(left, right) ==
    IF Truthy(left) /\ Truthy(right) THEN right
    ELSE IF Truthy(left) THEN left
    ELSE IF Truthy(right) THEN right
    ELSE None

\* The tools nodes.  Each loop runs over ai_msg.tool_calls from call i on;
\* acc holds the results so far, the case table, the emergency_type update
\* and whether an exception left the node; f is the call (0: none) whose
\* external service (index, extraction model, database) fails.  tool_fn.invoke
\* validates the arguments against the tool's schema first and raises when
\* they do not fit (cause "arguments"); cause "service" is the failing call.
ToolAcc(cases, docs) ==
    [results |-> <<>>, cases |-> cases, index |-> docs, et |-> None, raised |-> FALSE, cause |-> None]

\* custom_tool_node with results.insert(0, ...) in place of results.append
RECURSIVE domain_tool_loop_prepend(_, _, _, _, _)
domain_tool_loop_prepend(calls, i, f, data, acc) ==
    IF i > Len(calls) \/ acc.raised THEN acc
    ELSE LET call == calls[i] IN
         IF call.name = "submit_case"
         THEN LET result == submit_case(acc.cases, data, f = i)
              IN  domain_tool_loop_prepend(calls, i + 1, f, data,
                    [acc EXCEPT !.results = <<ToolMessage(result.message, call.id, result.case_id)>> \o @,
                                !.cases = result.cases])
         ELSE IF call.name \in tools_by_name("domain")
         THEN IF call.arg = None
              THEN [acc EXCEPT !.raised = TRUE, !.cause = "arguments"]
              ELSE IF f = i
              THEN [acc EXCEPT !.raised = TRUE, !.cause = "service"]
              ELSE LET found == info_retriever(acc.index, call.arg)
                   IN  domain_tool_loop_prepend(calls, i + 1, f, data,
                         [acc EXCEPT !.results = <<ToolMessage(found.observation, call.id, 0)>> \o @,
                                     !.index = found.index])
         ELSE domain_tool_loop_prepend(calls, i + 1, f, data, acc)

\* custom_tool_node of the medical, police, electricity and fire agents
RECURSIVE domain_tool_loop(_, _, _, _, _)
domain_tool_loop(calls, i, f, data, acc) ==
    IF i > Len(calls) \/ acc.raised THEN acc
    ELSE LET call == calls[i] IN
         IF call.name = "submit_case"
         THEN LET result == submit_case(acc.cases, data, f = i)
              IN  domain_tool_loop(calls, i + 1, f, data,
                    [acc EXCEPT !.results = Append(@, ToolMessage(result.message, call.id, result.case_id)),
                                !.cases = result.cases])
         ELSE IF call.name \in tools_by_name("domain")
         THEN IF call.arg = None
              THEN [acc EXCEPT !.raised = TRUE, !.cause = "arguments"]
              ELSE IF f = i
              THEN [acc EXCEPT !.raised = TRUE, !.cause = "service"]
              ELSE LET found == info_retriever(acc.index, call.arg)
                   IN  domain_tool_loop(calls, i + 1, f, data,
                         [acc EXCEPT !.results = Append(@, ToolMessage(found.observation, call.id, 0)),
                                     !.index = found.index])
         ELSE domain_tool_loop(calls, i + 1, f, data, acc)

\* tool_node of the triage agent: returns at the first classification
RECURSIVE triage_tool_loop(_, _, _)
triage_tool_loop(calls, i, acc) ==
    IF i > Len(calls) THEN acc
    ELSE LET call == calls[i] IN
         IF call.name \notin tools_by_name("triage")
         THEN triage_tool_loop(calls, i + 1, acc)
         ELSE IF call.arg = None
         THEN [acc EXCEPT !.raised = TRUE, !.cause = "arguments"]
         ELSE [acc EXCEPT !.results = Append(@, ToolMessage(call.arg, call.id, 0)),
                          !.et = call.arg]

\* custom_tool_node of the follow-up agent
RECURSIVE followup_tool_loop(_, _, _, _)
followup_tool_loop(calls, i, f, acc) ==
    IF i > Len(calls) THEN acc
    ELSE LET call == calls[i] IN
         IF call.name = "mark_case_resolved"
         THEN IF call.case = 0 \/ call.arg = None
              THEN followup_tool_loop(calls, i + 1, f,
                    [acc EXCEPT !.results = Append(@, ToolMessage(MissingArgsText, call.id, 0))])
              ELSE LET result == resolve_emergency_case(acc.cases, call.case, call.arg, f = i)
                   IN  followup_tool_loop(calls, i + 1, f,
                         [acc EXCEPT !.results = Append(@, ToolMessage(result.message, call.id, call.case)),
                                     !.cases = result.cases])
         ELSE followup_tool_loop(calls, i + 1, f, acc)

\* the "tools" node of the thread's graph, run on the last message
custom_tool_node(kind, msgs, cases, docs, f, data) ==
    LET calls == msgs[Len(msgs)].calls IN
    CASE kind = "domain" -> domain_tool_loop(calls, 1, f, data, ToolAcc(cases, docs))
      [] kind = "triage" -> triage_tool_loop(calls, 1, ToolAcc(cases, docs))
      [] OTHER           -> followup_tool_loop(calls, 1, f, ToolAcc(cases, docs))

\* tools_condition: to the tools node when the last message carries
\* ToolCalls, else END
tools_condition(msgs) ==
    IF msgs[Len(msgs)].role = "ai" /\ Len(msgs[Len(msgs)].calls) > 0 THEN "tools" ELSE "END"

\* str.strip() of a message content: blanks only leave the empty string
Strip(content) == IF content \in {"", " ", "  "} THEN "" ELSE content

\* a formatter that keeps every assistant message, blank or not
RECURSIVE format_conversation_messages_all(_)
format_conversation_messages_all(msgs) ==
    IF msgs = <<>> THEN <<>>
    ELSE LET message == msgs[1]
             rest == format_conversation_messages_all(Tail(msgs))
         IN  IF message.role = "user"
             THEN <<[tag |-> "Human", content |-> message.content, utt |-> message.utt]>> \o rest
             ELSE IF message.role = "ai"
             THEN <<[tag |-> "AI", content |-> message.content, utt |-> 0]>> \o rest
             ELSE rest

\* a formatter that reads the messages the generation step reads
RECURSIVE format_conversation_messages_recent(_)
format_conversation_messages_recent(msgs) ==
    IF msgs = <<>> THEN <<>>
    ELSE IF Len(msgs) > WindowSize THEN format_conversation_messages_recent(Tail(msgs))
    ELSE LET message == msgs[1]
             rest == format_conversation_messages_recent(Tail(msgs))
         IN  IF message.role = "user"
             THEN <<[tag |-> "Human", content |-> message.content, utt |-> message.utt]>> \o rest
             ELSE IF message.role = "ai"
             THEN IF message.content # "" /\ Strip(message.content) # ""
                  THEN <<[tag |-> "AI", content |-> message.content, utt |-> 0]>> \o rest
                  ELSE rest
             ELSE rest

\* format_conversation_messages: "Human: ..." for every HumanMessage, "AI: ..."
\* for every AIMessage whose content is not blank, joined in log order; the
\* entries are kept as a sequence, a tool-calling message's content is ""
RECURSIVE format_conversation_messages(_)
format_conversation_messages(msgs) ==
    IF msgs = <<>> THEN <<>>
    ELSE LET message == msgs[1]
             rest == format_conversation_messages(Tail(msgs))
         IN  IF message.role = "user"
             THEN <<[tag |-> "Human", content |-> message.content, utt |-> message.utt]>> \o rest
             ELSE IF message.role = "ai"
             THEN IF message.content # "" /\ Strip(message.content) # ""
                  THEN <<[tag |-> "AI", content |-> message.content, utt |-> 0]>> \o rest
                  ELSE rest
             ELSE rest

\* sys_msg of the agent module: a plain string, which the chat model takes
\* as a human message
sys_msg(kind) ==
    [role |-> "user", content |-> kind, calls |-> <<>>, tcid |-> NoId, cid |-> 0, utt |-> 0]

\* state["messages"] without the slice
Window_WholeLog(msgs) == msgs

\* state["messages"][-6:]
Window(msgs) ==
    IF Len(msgs) <= WindowSize THEN msgs ELSE SubSeq(msgs, Len(msgs) - WindowSize + 1, Len(msgs))

\* add_messages as update_state applies it to the stored log: a message of
\* the update that the log already holds (same id) stays where it is, the
\* others are appended.  The update is a log read earlier from this thread
\* plus new messages, so the messages it shares with the stored log are
\* their common prefix.
RECURSIVE CommonPrefixLen(_, _, _)
CommonPrefixLen(left, right, n) ==
    IF n < Len(left) /\ n < Len(right) /\ left[n + 1] = right[n + 1]
    THEN CommonPrefixLen(left, right, n + 1)
    ELSE n

\* a reducer that keeps only the messages the log did not hold yet
add_messages_new_only(left, right) ==
    SubSeq(right, CommonPrefixLen(left, right, 0) + 1, Len(right))

add_messages(left, right) ==
    left \o SubSeq(right, CommonPrefixLen(left, right, 0) + 1, Len(right))

\* respond: combined_response += last_message.content + "\n" for a streamed
\* state whose last message is an assistant message.  The text is kept as
\* its lines.
combined_response(lines, msgs) ==
    IF msgs[Len(msgs)].role = "ai" THEN Append(lines, msgs[Len(msgs)].content) ELSE lines

\* str.strip() of the combined text: the empty lines at both ends go
RECURSIVE strip(_)
strip(lines) ==
    IF lines = <<>> THEN <<>>
    ELSE IF Strip(lines[1]) = "" THEN strip(Tail(lines))
    ELSE IF Strip(lines[Len(lines)]) = "" THEN strip(SubSeq(lines, 1, Len(lines) - 1))
    ELSE lines

\* what the caller of the graph holds as the response after the state msgs
\* has been streamed: respond collects while the turn goes on and strips at
\* its end; the follow-up endpoint takes the content of the last message of
\* the state invoke returns
response(kind, lines, msgs) ==
    IF kind = "followup"
    THEN IF tools_condition(msgs) = "tools" THEN <<>> ELSE <<msgs[Len(msgs)].content>>
    ELSE IF tools_condition(msgs) = "tools"
         THEN combined_response(lines, msgs)
         ELSE strip(combined_response(lines, msgs))

\* [sys_msg] + state["messages"][-6:], the input of llm_with_tools.invoke
llm_input(kind, msgs) == <<sys_msg(kind)>> \o Window(msgs)

(* ------------------------------- state --------------------------------- *)
VARIABLES
    store,      \* checkpoint store: thread -> latest checkpoint (log, emergency_type, version)
    cases,      \* case-record store: the rows, a row's id is its position
    req,        \* the request each worker is serving: position in the turn and the graph state it holds
    turns,      \* turns started so far
    callsUsed,  \* ToolCalls emitted so far
    faults,     \* failures and crashes so far
    nextUtt,    \* per thread, the number of the next new user utterance
    history,    \* chat_collection: thread -> the display history save_history keeps
    deleted,    \* deleted_chat_collection: the archived display histories
    notifs,     \* notification rows, a row's id is its position
    resets,     \* history resets so far
    updates,    \* authority status updates and notification approvals so far
    written,    \* the values written so far to the emergency_type channel under the reducer
    index,      \* vector_store of the domain agent: the chunks of its source file
    transcript, \* the formatted conversation the last case submission handed to the extraction
    trip        \* what a specification of one endpoint keeps of its calls: the create_case /
                \* get_case pair on the case-record store, the last follow-up or authority
                \* request with its answer, the background save_history tasks

vars == <<store, cases, req, turns, callsUsed, faults, nextUtt,
          history, deleted, notifs, resets, updates, written, index, transcript, trip>>

NoTranscript == [made |-> FALSE, entries |-> <<>>]

NoTrip == [pc |-> "none"]

EmptyCheckpoint == [log |-> <<>>, et |-> None, ver |-> 0]

IdleReq ==
    [pc |-> "idle", th |-> "med", msgs |-> <<>>, et |-> None, utt |-> 0,
     eid |-> 0, fault |-> "none", prev |-> "none", loaded |-> EmptyCheckpoint, reply |-> <<>>,
     ver |-> 0, section |-> None, steps |-> 0, prompt |-> <<>>]

Init ==
    /\ store = [t \in Threads |-> EmptyCheckpoint]
    /\ cases = << [domain |-> "medical", user_id |-> "default_user", status |-> "NOT_ASSIGNED",
                   location |-> "address"] >>
    /\ req = [r \in Reqs |-> IdleReq]
    /\ turns = 0
    /\ callsUsed = 0
    /\ faults = 0
    /\ nextUtt = [t \in Threads |-> 1]
    /\ history = [t \in Threads |-> <<>>]
    /\ deleted = <<>>
    /\ notifs = <<>>
    /\ resets = 0
    /\ updates = 0
    /\ written = <<>>
    /\ index = SourceChunks
    /\ transcript = NoTranscript
    /\ trip = NoTrip

WorkerBefore(q, r) == q = "r1" /\ r = "r2"

InProgress(r) == req[r].pc \in {"loaded", "invoke", "generate", "tools"}

\* a saver that writes the checkpoint under every thread_id
PutCheckpoint_EveryThread(t, msgs, et, ver) ==
    [u \in Threads |-> [log |-> msgs, et |-> et, ver |-> ver]]

\* MongoDBSaver.put: the request's state becomes the thread's latest
\* checkpoint.  Its version is the next one after the version the writer
\* holds (BaseCheckpointSaver.get_next_version: current + 1).
PutCheckpoint(t, msgs, et, ver) ==
    [store EXCEPT ![t] = [log |-> msgs, et |-> et, ver |-> ver]]

\* respond of the triage agent: last_section is the emergency_type of the
\* latest streamed state that holds one
last_section(kind, section, et) ==
    IF kind = "triage" /\ et # None THEN et ELSE section

\* The case a follow-up request names exists and belongs to the requester
\* (chat_with_followup_agent, the 404 and 403 checks)
FollowupVerified(eid, user_id) ==
    /\ eid \in 1..Len(cases)
    /\ cases[eid].user_id = user_id

\* a turn that starts without the extra state of the checkpoint
LoadCheckpoint_MessagesOnly(r, t, u, eid, prev) ==
    req' = [req EXCEPT ![r] =
              [pc |-> "loaded", th |-> t, msgs |-> store[t].log, et |-> None,
               utt |-> u, eid |-> eid, fault |-> "none",
               prev |-> prev, loaded |-> store[t], reply |-> <<>>,
               ver |-> store[t].ver, section |-> None, steps |-> 0, prompt |-> <<>>]]

\* graph.stream / followup_graph.get_state: the turn starts by reading the
\* thread's latest checkpoint
LoadCheckpoint(r, t, u, eid, prev) ==
    req' = [req EXCEPT ![r] =
              [pc |-> "loaded", th |-> t, msgs |-> store[t].log, et |-> store[t].et,
               utt |-> u, eid |-> eid, fault |-> "none",
               prev |-> prev, loaded |-> store[t], reply |-> <<>>,
               ver |-> store[t].ver, section |-> None, steps |-> 0, prompt |-> <<>>]]

\* a chat request with a new user message arrives at a free worker (the
\* workers are interchangeable: the first free one takes it)
StartTurn(r, t) ==
    /\ req[r].pc = "idle"
    /\ \A q \in Reqs : req[q].pc = "idle" => ~WorkerBefore(q, r)
    /\ turns < MaxTurns
    /\ \E eid \in (IF Kind(t) = "followup" THEN 1..Len(cases) ELSE {0}) :
         /\ Kind(t) = "followup" => FollowupVerified(eid, "default_user")
         /\ LoadCheckpoint(r, t, nextUtt[t], eid, "none")
    /\ turns' = turns + 1
    /\ nextUtt' = [nextUtt EXCEPT ![t] = @ + 1]
    /\ UNCHANGED <<store, cases, callsUsed, faults,
                 history, deleted, notifs, resets, updates, written, index, transcript, trip>>

\* the caller sends the same message again after a failed or crashed turn
RetryTurn(r) ==
    /\ req[r].pc \in {"failed", "crashed"}
    /\ turns < MaxTurns
    /\ LoadCheckpoint(r, req[r].th, req[r].utt, req[r].eid, req[r].fault)
    /\ turns' = turns + 1
    /\ UNCHANGED <<store, cases, callsUsed, faults, nextUtt,
                 history, deleted, notifs, resets, updates, written, index, transcript, trip>>

\* respond: the input {"messages": [user]} is applied and checkpointed
ApplyInput(r) ==
    /\ req[r].pc = "loaded"
    /\ Kind(req[r].th) # "followup"
    /\ LET msgs == Append(req[r].msgs, HumanMessage(req[r].utt)) IN
         /\ store' = PutCheckpoint(req[r].th, msgs, req[r].et, req[r].ver + 1)
         /\ req' = [req EXCEPT ![r].msgs = msgs, ![r].pc = "generate",
                               ![r].ver = @ + 1,
                               ![r].section = last_section(Kind(req[r].th), @, req[r].et)]
    /\ UNCHANGED <<cases, turns, callsUsed, faults, nextUtt,
                 history, deleted, notifs, resets, updates, written, index, transcript, trip>>

\* chat_with_followup_agent: messages.append(HumanMessage), update_state
FollowupUpdateState(r) ==
    /\ req[r].pc = "loaded"
    /\ Kind(req[r].th) = "followup"
    /\ LET t == req[r].th
           msgs == add_messages(store[t].log, Append(req[r].msgs, HumanMessage(req[r].utt)))
       IN  /\ store' = PutCheckpoint(t, msgs, store[t].et, store[t].ver + 1)
           /\ req' = [req EXCEPT ![r].pc = "invoke"]
    /\ UNCHANGED <<cases, turns, callsUsed, faults, nextUtt,
                 history, deleted, notifs, resets, updates, written, index, transcript, trip>>

\* chat_with_followup_agent: followup_graph.invoke(None, config) resumes from
\* the stored checkpoint
FollowupInvoke(r) ==
    /\ req[r].pc = "invoke"
    /\ LET t == req[r].th IN
         req' = [req EXCEPT ![r].msgs = store[t].log, ![r].et = store[t].et,
                            ![r].ver = store[t].ver, ![r].pc = "generate"]
    /\ UNCHANGED <<store, cases, turns, callsUsed, faults, nextUtt,
                 history, deleted, notifs, resets, updates, written, index, transcript, trip>>

\* the node that ran last on the thread of this log is generate: the last
\* message that is no user message is an assistant message
LastNodeIsGenerate(log) ==
    \E i \in 1..Len(log) :
        /\ log[i].role = "ai"
        /\ \A j \in (i + 1)..Len(log) : log[j].role = "user"

\* chat_with_followup_agent: update_state without as_node writes as the node
\* that ran last; on a thread whose last node was generate the routing after
\* the update is tools_condition on a log ending in the user message, so
\* invoke(None) has no node to run and returns the stored state
FollowupInvokeNoTask(r) ==
    /\ req[r].pc = "invoke"
    /\ LET t == req[r].th IN
         /\ LastNodeIsGenerate(store[t].log)
         /\ tools_condition(store[t].log) = "END"
         /\ req' = [req EXCEPT ![r].msgs = store[t].log, ![r].et = store[t].et,
                               ![r].ver = store[t].ver, ![r].pc = "done",
                               ![r].reply = <<store[t].log[Len(store[t].log)].content>>]
    /\ UNCHANGED <<store, cases, turns, callsUsed, faults, nextUtt,
                 history, deleted, notifs, resets, updates, written, index, transcript, trip>>

\* generate / assistant: one model call on the window, its message appended
\* and checkpointed; tools_condition picks the next node.  outs is what the
\* model may answer.
generate_node(r, outs) ==
    /\ req[r].pc = "generate"
    /\ WithinRecursionLimit(req[r].steps)
    /\ \E out \in outs :
         LET msgs == Append(req[r].msgs, out) IN
         /\ store' = PutCheckpoint(req[r].th, msgs, req[r].et, req[r].ver + 1)
         /\ req' = [req EXCEPT ![r].msgs = msgs, ![r].ver = @ + 1,
                               ![r].steps = @ + 1,
                               ![r].prompt = llm_input(Kind(req[r].th), req[r].msgs),
                               ![r].section = last_section(Kind(req[r].th), @, req[r].et),
                               ![r].pc = IF tools_condition(msgs) = "tools" THEN "tools" ELSE "done",
                               ![r].reply = response(Kind(req[r].th), @, msgs)]
         /\ callsUsed' = callsUsed + Len(out.calls)
    /\ UNCHANGED <<cases, turns, faults, nextUtt,
                 history, deleted, notifs, resets, updates, written, index, transcript, trip>>

generate(r) ==
    generate_node(r, LLMOutputs(Kind(req[r].th), req[r].eid, Len(req[r].msgs) + 1,
                                MaxToolCalls - callsUsed))

\* generate: llm_with_tools.invoke raises, the exception is logged and
\* re-raised, respond raises and the endpoint answers 500
generateRaises(r) ==
    /\ req[r].pc = "generate"
    /\ faults < MaxFaults
    /\ req' = [req EXCEPT ![r].pc = "failed", ![r].fault = "generation"]
    /\ faults' = faults + 1
    /\ UNCHANGED <<store, cases, turns, callsUsed, nextUtt,
                 history, deleted, notifs, resets, updates, written, index, transcript, trip>>

\* the call f of the list can fail: a retrieval, a submission, a status update
CanFail(kind, call) ==
    CASE kind = "domain" -> \/ call.name = "submit_case"
                            \/ call.name = "info_retriever" /\ call.arg # None
      [] kind = "triage" -> FALSE
      [] OTHER           -> call.name = "mark_case_resolved" /\ call.case # 0

\* the drafts the extraction of this tools step may produce (one when no
\* call of the message is a submission)
ExtractedDrafts(kind, calls) ==
    IF kind = "domain" /\ \E i \in 1..Len(calls) : calls[i].name = "submit_case"
    THEN CaseDrafts
    ELSE { [location |-> None] }

FaultName(kind, call) ==
    IF kind = "domain" /\ call.name = "info_retriever" THEN "retrieval" ELSE "store"

\* the node has run submit_<domain>_case(state) for a call of the message
Submitted(acc) ==
    \E i \in 1..Len(acc.results) : acc.results[i].content \in {SubmitOkText, SubmitErrText}

\* what made the tools node raise
RaisedBy(kind, calls, f, acc) ==
    IF acc.cause = "arguments" THEN "arguments" ELSE FaultName(kind, calls[f])

\* the tools node: every ToolCall of the last message handled in order, the
\* results appended and checkpointed; an exception leaving the node fails
\* the turn and keeps what the earlier calls wrote to the case store
tools(r) ==
    /\ req[r].pc = "tools"
    /\ WithinRecursionLimit(req[r].steps)
    /\ LET t == req[r].th
           kind == Kind(t)
           calls == req[r].msgs[Len(req[r].msgs)].calls
       IN \E f \in 0..Len(calls), data \in ExtractedDrafts(kind, calls) :
            /\ f # 0 => faults < MaxFaults /\ CanFail(kind, calls[f])
            /\ LET acc == custom_tool_node(kind, req[r].msgs, cases, index, f, data)
                   msgs == req[r].msgs \o acc.results
                   et == IF acc.et = None THEN req[r].et ELSE keep_last(req[r].et, acc.et)
               IN  /\ cases' = acc.cases
                   /\ index' = acc.index
                   /\ transcript' = IF Submitted(acc)
                                    THEN [made |-> TRUE,
                                          entries |-> format_conversation_messages(req[r].msgs)]
                                    ELSE transcript
                   /\ faults' = IF f = 0 THEN faults ELSE faults + 1
                   /\ IF acc.raised
                      THEN /\ req' = [req EXCEPT ![r].pc = "failed",
                                                 ![r].fault = RaisedBy(kind, calls, f, acc)]
                           /\ store' = store
                      ELSE /\ store' = PutCheckpoint(t, msgs, et, req[r].ver + 1)
                           /\ req' = [req EXCEPT ![r].msgs = msgs, ![r].et = et,
                                                 ![r].ver = @ + 1,
                                                 ![r].steps = @ + 1,
                                                 ![r].section = last_section(kind, @, et),
                                                 ![r].pc = "generate",
                                                 ![r].fault = IF f = 0 THEN @ ELSE FaultName(kind, calls[f])]
    /\ UNCHANGED <<turns, callsUsed, nextUtt,
                 history, deleted, notifs, resets, updates, written, trip>>

\* the graph has run RecursionLimit super-steps and a node is still due:
\* GraphRecursionError leaves stream / invoke, the endpoint answers 500
\* ("We are facing an error. Please try again later.")
GraphRecursionError(r) ==
    /\ req[r].pc \in {"generate", "tools"}
    /\ ~WithinRecursionLimit(req[r].steps)
    /\ req' = [req EXCEPT ![r].pc = "failed", ![r].fault = "recursion"]
    /\ UNCHANGED <<store, cases, turns, callsUsed, faults, nextUtt,
                 history, deleted, notifs, resets, updates, written, index, transcript, trip>>

\* the chat endpoints of the domain and triage agents: the reply is sent and
\* the background task save_history appends the user/bot pair to the
\* thread's display history
save_history(r) ==
    /\ req[r].pc = "done"
    /\ Kind(req[r].th) # "followup"
    /\ history' = [history EXCEPT ![req[r].th] =
                      @ \o << [role |-> "user", content |-> "utterance", utt |-> req[r].utt],
                              [role |-> "bot", content |-> req[r].reply, utt |-> 0] >>]
    /\ req' = [req EXCEPT ![r] = IdleReq]
    /\ UNCHANGED <<store, cases, turns, callsUsed, faults, nextUtt,
                 deleted, notifs, resets, updates, written, index, transcript, trip>>

\* the endpoint has answered (the follow-up reply, or 500) and the caller
\* does not send the message again: the worker is free
Return(r) ==
    /\ \/ req[r].pc \in {"failed", "crashed"}
       \/ req[r].pc = "done" /\ Kind(req[r].th) = "followup"
    /\ req' = [req EXCEPT ![r] = IdleReq]
    /\ UNCHANGED <<store, cases, turns, callsUsed, faults, nextUtt,
                 history, deleted, notifs, resets, updates, written, index, transcript, trip>>

\* the worker process dies in the middle of a turn
Crash(r) ==
    /\ InProgress(r)
    /\ faults < MaxFaults
    /\ req' = [req EXCEPT ![r].pc = "crashed", ![r].fault = "crash"]
    /\ faults' = faults + 1
    /\ UNCHANGED <<store, cases, turns, callsUsed, nextUtt,
                 history, deleted, notifs, resets, updates, written, index, transcript, trip>>

\* delete_and_archive_<agent>_chat: with a non-empty display history the
\* thread's checkpoints are deleted (a failure of the delete is printed and
\* passed over), the history is archived and emptied
delete_and_archive_chat(t) ==
    /\ Kind(t) # "followup"
    /\ resets < MaxResets
    /\ history[t] # <<>>
    /\ \E fails \in BOOLEAN :
         /\ fails => faults < MaxFaults
         /\ store' = IF fails THEN store ELSE [store EXCEPT ![t] = EmptyCheckpoint]
         /\ faults' = IF fails THEN faults + 1 ELSE faults
    /\ deleted' = Append(deleted, [thread |-> t, history |-> history[t]])
    /\ history' = [history EXCEPT ![t] = <<>>]
    /\ resets' = resets + 1
    /\ UNCHANGED <<cases, req, turns, callsUsed, nextUtt, notifs, updates, written, index, transcript, trip>>

\* get_conversation_history: the messages of the thread's state, one entry
\* each, and their number
get_conversation_history(checkpoints, t) ==
    [conversation |-> [i \in 1..Len(checkpoints[t].log) |->
                          [type |-> checkpoints[t].log[i].role, content |-> checkpoints[t].log[i].content]],
     message_count |-> Len(checkpoints[t].log)]

\* clear_conversation_history: update_state(config, {"messages": []}) on a
\* thread that has a checkpoint
clear_conversation_history(t) ==
    /\ Kind(t) = "followup"
    /\ resets < MaxResets
    /\ store[t].ver > 0
    /\ store' = PutCheckpoint(t, add_messages(store[t].log, <<>>), store[t].et, store[t].ver + 1)
    /\ resets' = resets + 1
    /\ UNCHANGED <<cases, req, turns, callsUsed, faults, nextUtt,
                 history, deleted, notifs, updates, written, index, transcript, trip>>

\* update_medical_emergency_status: the status is validated and written, and
\* the case's user is notified of an assignment or a resolution request
update_medical_emergency_status(emergency_id, new_status) ==
    /\ updates < MaxUpdates
    /\ LET upd == update_emergency_status(cases, emergency_id, "medical", new_status, FALSE) IN
         /\ upd.success
         /\ cases' = upd.cases
         /\ notifs' =
              IF new_status = "IN_PROGRESS"
              THEN create_notification(notifs, cases[emergency_id].user_id, "status_update",
                                       emergency_id, "medical")
              ELSE IF new_status = "REQUESTED_FOR_RESOLUTION"
              THEN create_notification(notifs, cases[emergency_id].user_id, "resolution_request",
                                       emergency_id, "medical")
              ELSE notifs
    /\ updates' = updates + 1
    /\ UNCHANGED <<store, req, turns, callsUsed, faults, nextUtt,
                 history, deleted, resets, written, index, transcript, trip>>

\* update_notification_approval_endpoint: the approval is stored; an approval
\* of "true" resolves the case of the notification when the notification is
\* among get_user_notifications("", None)
update_notification_approval_endpoint(notification_id, is_approved) ==
    /\ updates < MaxUpdates
    /\ notification_id \in 1..Len(notifs)
    /\ LET stored == update_notification_approval(notifs, notification_id, is_approved)
           found == notification_id \in get_user_notifications(stored, "")
       IN  /\ notifs' = stored
           /\ cases' = IF is_approved = "true" /\ found
                       THEN update_emergency_status(cases, stored[notification_id].emergency_id,
                                                    stored[notification_id].emergency_type,
                                                    "RESOLVED", FALSE).cases
                       ELSE cases
    /\ updates' = updates + 1
    /\ UNCHANGED <<store, req, turns, callsUsed, faults, nextUtt,
                 history, deleted, resets, written, index, transcript, trip>>

Next ==
    \/ \E t \in Threads : delete_and_archive_chat(t) \/ clear_conversation_history(t)
    \/ \E r \in Reqs :
        \/ \E t \in Threads : StartTurn(r, t)
        \/ RetryTurn(r)
        \/ ApplyInput(r)
        \/ FollowupUpdateState(r)
        \/ FollowupInvoke(r)
        \/ FollowupInvokeNoTask(r)
        \/ generate(r)
        \/ generateRaises(r)
        \/ tools(r)
        \/ save_history(r)
        \/ Return(r)
        \/ Crash(r)

\* requests may arrive while another is being served: nothing in the
\* endpoints, in respond or in the graphs takes a lock
Spec == Init /\ [][Next]_vars

\* The same program when its callers send one request at a time: a request
\* is taken up only when every earlier one has been answered.
StartTurnAlone(r, t) ==
    /\ \A q \in Reqs : req[q].pc = "idle"
    /\ StartTurn(r, t)

RetryTurnAlone(r) ==
    /\ \A q \in Reqs : ~InProgress(q)
    /\ RetryTurn(r)

\* the steps of a request once it has been taken up, but for generation
TurnSteps(r) ==
    \/ ApplyInput(r)
    \/ FollowupUpdateState(r)
    \/ FollowupInvoke(r)
    \/ FollowupInvokeNoTask(r)
    \/ tools(r)
    \/ save_history(r)
    \/ Return(r)

NextSerial ==
    \E r \in Reqs :
        \/ \E t \in Threads : StartTurnAlone(r, t)
        \/ RetryTurnAlone(r)
        \/ TurnSteps(r)
        \/ generate(r)
        \/ generateRaises(r)
        \/ Crash(r)

SpecSerial == Init /\ [][NextSerial]_vars

\* The case-record side: the serial program together with the authority and
\* notification endpoints.
NextCases ==
    \/ NextSerial
    \/ \E emergency_id \in 1..Len(cases), i \in 1..Len(Statuses) :
          update_medical_emergency_status(emergency_id, Statuses[i])
    \/ \E notification_id \in 1..Len(notifs), is_approved \in {"true", "false"} :
          update_notification_approval_endpoint(notification_id, is_approved)

SpecCases == Init /\ [][NextCases]_vars

\* The program with a language model that may answer every generation call
\* with a ToolCall: one registered call per assistant message, as often as it
\* is asked.
LoopCalls(kind, eid) ==
    { [name |-> (CASE kind = "domain" -> "info_retriever"
                   [] kind = "triage" -> "classify_emergency_type"
                   [] OTHER -> "mark_case_resolved"),
       arg |-> (CASE kind = "domain" -> "query"
                  [] kind = "triage" -> "Medical"
                  [] OTHER -> "medical"),
       case |-> eid],
      [name |-> "unknown_tool", arg |-> None, case |-> 0] }

LoopOutputs(kind, eid, pos) ==
    { AIMessage("reply", <<>>) } \cup
    { AIMessage("", << [id |-> <<pos, 1>>, name |-> c.name, arg |-> c.arg, case |-> c.case] >>) :
        c \in LoopCalls(kind, eid) }

generateLooping(r) ==
    generate_node(r, LoopOutputs(Kind(req[r].th), req[r].eid, Len(req[r].msgs) + 1))

\* the same model while the ToolCall budget lasts
generateSingle(r) ==
    generate_node(r, IF callsUsed < MaxToolCalls
                     THEN LoopOutputs(Kind(req[r].th), req[r].eid, Len(req[r].msgs) + 1)
                     ELSE { AIMessage("reply", <<>>) })

\* The same program when the callers of one thread send one request at a
\* time, while requests of different threads and history resets arrive at
\* any moment.
StartTurnOtherThread(r, t) ==
    /\ \A q \in Reqs : req[q].pc # "idle" => req[q].th # t
    /\ StartTurn(r, t)

NextThreads ==
    \/ \E t \in Threads : delete_and_archive_chat(t) \/ clear_conversation_history(t)
    \/ \E r \in Reqs :
        \/ \E t \in Threads : StartTurnOtherThread(r, t)
        \/ TurnSteps(r)
        \/ generateSingle(r)

SpecThreads == Init /\ [][NextThreads]_vars

\* the first request of a behaviour
StartFirstTurn(r, t) ==
    /\ turns = 0
    /\ StartTurn(r, t)

NextLoop ==
    \E r \in Reqs :
        \/ \E t \in Threads : StartFirstTurn(r, t)
        \/ ApplyInput(r)
        \/ FollowupUpdateState(r)
        \/ FollowupInvoke(r)
        \/ tools(r)
        \/ save_history(r)
        \/ Return(r)
        \/ generateLooping(r)
        \/ GraphRecursionError(r)

SpecLoop == Init /\ [][NextLoop]_vars

\* The reducer of the emergency_type channel on its own: the channel of the
\* triage thread starts with any value and takes any sequence of writes.
EmergencyValues == {None, "", "Medical", "Police"}

InitKeepLast ==
    /\ \E v \in EmergencyValues :
         /\ store = [t \in Threads |-> IF t = "tri" THEN [EmptyCheckpoint EXCEPT !.et = v]
                                                   ELSE EmptyCheckpoint]
         /\ written = <<v>>
    /\ cases = <<>>
    /\ req = [r \in Reqs |-> IdleReq]
    /\ turns = 0
    /\ callsUsed = 0
    /\ faults = 0
    /\ nextUtt = [t \in Threads |-> 1]
    /\ history = [t \in Threads |-> <<>>]
    /\ deleted = <<>>
    /\ notifs = <<>>
    /\ resets = 0
    /\ updates = 0
    /\ index = SourceChunks
    /\ transcript = NoTranscript
    /\ trip = NoTrip

\* BinaryOperatorAggregate.update: the channel's value becomes
\* keep_last(value, written value)
update_emergency_type(v) ==
    /\ Len(written) <= MaxWrites
    /\ store' = [store EXCEPT !["tri"].et = keep_last(@, v)]
    /\ written' = Append(written, v)
    /\ UNCHANGED <<cases, req, turns, callsUsed, faults, nextUtt,
                 history, deleted, notifs, resets, updates, index, transcript, trip>>

NextKeepLast == \E v \in EmergencyValues : update_emergency_type(v)

SpecKeepLast == InitKeepLast /\ [][NextKeepLast]_vars

\* A conversation with a domain agent that leads to a submission: the model
\* answers, asks for a retrieval or asks for the submission, one call at a
\* time, and the caller sends one request at a time.
SubmitOutputs(pos) ==
    { AIMessage("reply", <<>>),
      AIMessage("checking", << [id |-> <<pos, 1>>, name |-> "info_retriever", arg |-> "query", case |-> 0] >>),
      AIMessage("", << [id |-> <<pos, 1>>, name |-> "info_retriever", arg |-> "query", case |-> 0] >>),
      AIMessage("", << [id |-> <<pos, 1>>, name |-> "submit_case", arg |-> None, case |-> 0] >>) }

generateSubmitting(r) ==
    generate_node(r, IF callsUsed < MaxDomainCalls
                     THEN SubmitOutputs(Len(req[r].msgs) + 1)
                     ELSE { AIMessage("reply", <<>>) })

StartDomainTurn(r) == StartTurnAlone(r, "med")

NextSubmit ==
    \E r \in Reqs :
        \/ StartDomainTurn(r)
        \/ ApplyInput(r)
        \/ generateSubmitting(r)
        \/ tools(r)
        \/ save_history(r)
        \/ Return(r)

SpecSubmit == Init /\ [][NextSubmit]_vars

\* The case-record store on its own, field by field: one draft of one domain
\* is saved as the submission tool saves it and read back by id.
CaseDomains == {"medical", "police", "electricity", "fire"}

\* the fields of <Domain>EmergencySchema
SchemaFields(domain) ==
    CASE domain = "medical" ->
           {"patient_name", "patient_age", "patient_phone", "location_address", "emergency_type",
            "symptoms", "urgency_level", "allergies", "medications", "contact_person"}
      [] domain = "police" ->
           {"reporter_name", "reporter_phone", "incident_location", "incident_type", "incident_time",
            "description", "suspect_details", "urgency"}
      [] domain = "electricity" ->
           {"reporter_name", "reporter_phone", "location", "issue_type", "severity", "time_started",
            "description"}
      [] OTHER ->
           {"reporter_name", "reporter_phone", "location", "fire_type", "severity_level",
            "time_started", "people_at_risk", "building_details", "hazards_present"}

\* the columns of the mapped class <Domain>EmergencyReport
ReportColumns(domain) ==
    CASE domain = "medical" ->
           {"id", "user_id", "patient_name", "patient_age", "patient_gender", "patient_id",
            "patient_phone", "location_address", "location_gps_lat", "location_gps_lng",
            "emergency_type", "symptoms_description", "urgency_level", "allergies",
            "current_medications", "existing_conditions", "contact_person_name",
            "contact_person_phone", "additional_notes", "created_at", "updated_at"}
      [] domain = "police" ->
           {"id", "user_id", "reporter_name", "reporter_id", "reporter_phone", "incident_address",
            "incident_landmark", "incident_gps_lat", "incident_gps_lng", "incident_type",
            "incident_time", "incident_description", "urgency_level", "suspect_appearance",
            "suspect_vehicle_number", "suspect_known_person", "victim_name", "victim_phone",
            "victim_relationship", "has_photos", "has_videos", "has_audio", "media_files_path",
            "additional_notes", "created_at", "updated_at"}
      [] domain = "electricity" ->
           {"id", "user_id", "reporter_name", "reporter_phone", "reporter_email",
            "location_address", "location_gps_lat", "location_gps_lng", "issue_type",
            "severity_level", "issue_started_time", "issue_description", "has_photos",
            "has_videos", "media_files_path", "additional_notes", "created_at", "updated_at"}
      [] OTHER -> FireReportColumns

\* the keyword arguments save_<domain>_emergency passes to the mapped class:
\* user_id and every field of the schema under the field's own name
save_kwargs(domain, user_id, data) ==
    [k \in {"user_id"} \cup SchemaFields(domain) |-> IF k = "user_id" THEN user_id ELSE data[k]]

\* the constructor of a declarative class: a keyword that is no attribute of
\* the class is a TypeError; the columns not named stay null
declarative_constructor(columns, kwargs) ==
    [ok |-> DOMAIN kwargs \subseteq columns,
     row |-> [c \in columns |-> IF c \in DOMAIN kwargs THEN kwargs[c] ELSE None]]

\* save_<domain>_emergency, field by field: the row is built, added and
\* committed, its id returned; an exception is re-raised after the rollback
save_emergency_report(table, domain, user_id, data) ==
    LET report == declarative_constructor(ReportColumns(domain), save_kwargs(domain, user_id, data))
    IN  IF report.ok
        THEN [raised |-> FALSE, id |-> Len(table) + 1,
              table |-> Append(table, [domain |-> domain, row |-> report.row])]
        ELSE [raised |-> TRUE, id |-> 0, table |-> table]

\* get_emergency_report_by_id: the row of that id in the table of that type
get_emergency_report_by_id(table, report_id, emergency_type) ==
    IF /\ emergency_type \in CaseDomains
       /\ report_id \in 1..Len(table)
       /\ table[report_id].domain = emergency_type
    THEN [found |-> TRUE, row |-> table[report_id].row]
    ELSE [found |-> FALSE, row |-> [c \in {} |-> None]]

InitStore ==
    /\ \E domain \in CaseDomains : \E draft \in [SchemaFields(domain) -> {None, "value"}] :
         trip = [pc |-> "draft", domain |-> domain, draft |-> draft, case_id |-> 0,
                 fetched |-> [found |-> FALSE, row |-> [c \in {} |-> None]]]
    /\ store = [t \in Threads |-> EmptyCheckpoint]
    /\ cases = <<>>
    /\ req = [r \in Reqs |-> IdleReq]
    /\ turns = 0
    /\ callsUsed = 0
    /\ faults = 0
    /\ nextUtt = [t \in Threads |-> 1]
    /\ history = [t \in Threads |-> <<>>]
    /\ deleted = <<>>
    /\ notifs = <<>>
    /\ resets = 0
    /\ updates = 0
    /\ written = <<>>
    /\ index = SourceChunks
    /\ transcript = NoTranscript

\* submit_<domain>_case: the draft goes to save_<domain>_emergency; an
\* exception is caught and the result carries case_id None
create_case ==
    /\ trip.pc = "draft"
    /\ LET saved == save_emergency_report(cases, trip.domain, "default_user", trip.draft) IN
         /\ cases' = saved.table
         /\ trip' = [trip EXCEPT !.pc = "created", !.case_id = saved.id]
    /\ UNCHANGED <<store, req, turns, callsUsed, faults, nextUtt,
                 history, deleted, notifs, resets, updates, written, index, transcript>>

\* the case is asked for by the id the submission returned
get_case ==
    /\ trip.pc = "created"
    /\ trip' = [trip EXCEPT !.pc = "fetched",
                             !.fetched = get_emergency_report_by_id(cases, trip.case_id, trip.domain)]
    /\ UNCHANGED <<store, cases, req, turns, callsUsed, faults, nextUtt,
                 history, deleted, notifs, resets, updates, written, index, transcript>>

NextStore == create_case \/ get_case

SpecStore == InitStore /\ [][NextStore]_vars

\* The transcript formatter on its own: the domain thread holds any log of
\* user, assistant and tool messages, and a submission formats it.
FormatMessages ==
    LET call == [id |-> <<1, 1>>, name |-> "info_retriever", arg |-> "query", case |-> 0] IN
    { HumanMessage(1),
      AIMessage("reply", <<>>),
      AIMessage("", <<call>>),
      AIMessage("  ", <<>>),
      AIMessage("reply", <<call>>),
      ToolMessage("documents", <<1, 1>>, 0) }

InitFormat ==
    /\ \E n \in 0..MaxLog : \E log \in [1..n -> FormatMessages] :
         store = [t \in Threads |-> IF t = "med" THEN [log |-> log, et |-> None, ver |-> 1]
                                                 ELSE EmptyCheckpoint]
    /\ cases = <<>>
    /\ req = [r \in Reqs |-> IdleReq]
    /\ turns = 0
    /\ callsUsed = 0
    /\ faults = 0
    /\ nextUtt = [t \in Threads |-> 1]
    /\ history = [t \in Threads |-> <<>>]
    /\ deleted = <<>>
    /\ notifs = <<>>
    /\ resets = 0
    /\ updates = 0
    /\ written = <<>>
    /\ index = SourceChunks
    /\ transcript = NoTranscript
    /\ trip = NoTrip

\* submit_<domain>_case: formatted_conversation = format_conversation_messages(state)
format_transcript ==
    /\ ~transcript.made
    /\ transcript' = [made |-> TRUE, entries |-> format_conversation_messages(store["med"].log)]
    /\ UNCHANGED <<store, cases, req, turns, callsUsed, faults, nextUtt,
                 history, deleted, notifs, resets, updates, written, index, trip>>

NextFormat == format_transcript

SpecFormat == InitFormat /\ [][NextFormat]_vars

\* The follow-up endpoint with its callers: a user chats with the domain
\* agent, which may submit cases, and any user may send a follow-up request
\* for any case id and type, one request at a time.  trip holds the user of
\* the domain thread and the last follow-up request with its answer.
Users == {"default_user", "user_1"}

\* get_emergency_report_by_id on the case records of the conversation model:
\* the id of the row of that id in the table of that type (0: None)
find_report(table, report_id, emergency_type) ==
    IF /\ emergency_type \in CaseDomains
       /\ report_id \in 1..Len(table)
    THEN IF table[report_id].domain = emergency_type THEN report_id ELSE 0
    ELSE 0

\* checks that let every user through to a case that exists
followup_access_any_user(table, emergency_id, emergency_type, user_id) ==
    IF find_report(table, emergency_id, emergency_type) = 0 THEN 404 ELSE 200

\* chat_with_followup_agent, the two checks before the thread is touched:
\* 404 when the case is not found, 403 when it is another user's, else the
\* request goes on (200)
followup_access(table, emergency_id, emergency_type, user_id) ==
    LET case == find_report(table, emergency_id, emergency_type) IN
    IF case = 0 THEN 404
    ELSE IF table[case].user_id # user_id THEN 403
    ELSE 200

InitOwners ==
    /\ \E user \in Users :
         trip = [pc |-> "owners", chat_user |-> user, emergency_id |-> 0,
                 emergency_type |-> None, user_id |-> None, code |-> 0]
    /\ store = [t \in Threads |-> EmptyCheckpoint]
    /\ cases = << [domain |-> "medical", user_id |-> "default_user", status |-> "NOT_ASSIGNED",
                   location |-> "address"] >>
    /\ req = [r \in Reqs |-> IdleReq]
    /\ turns = 0
    /\ callsUsed = 0
    /\ faults = 0
    /\ nextUtt = [t \in Threads |-> 1]
    /\ history = [t \in Threads |-> <<>>]
    /\ deleted = <<>>
    /\ notifs = <<>>
    /\ resets = 0
    /\ updates = 0
    /\ written = <<>>
    /\ index = SourceChunks
    /\ transcript = NoTranscript

\* chat_with_followup_agent: a follow-up request for (emergency_id,
\* emergency_type) by user_id.  A rejected request raises HTTPException before
\* get_state; an accepted one starts a turn on the follow-up thread.
chat_with_followup_agent(r, emergency_id, emergency_type, user_id) ==
    /\ \A q \in Reqs : req[q].pc = "idle" /\ ~WorkerBefore(q, r)
    /\ turns < MaxTurns
    /\ LET code == followup_access(cases, emergency_id, emergency_type, user_id) IN
         /\ trip' = [trip EXCEPT !.emergency_id = emergency_id, !.emergency_type = emergency_type,
                                 !.user_id = user_id, !.code = code]
         /\ IF code = 200
            THEN /\ LoadCheckpoint(r, "fol", nextUtt["fol"], emergency_id, "none")
                 /\ nextUtt' = [nextUtt EXCEPT !["fol"] = @ + 1]
            ELSE UNCHANGED <<req, nextUtt>>
    /\ turns' = turns + 1
    /\ UNCHANGED <<store, cases, callsUsed, faults,
                 history, deleted, notifs, resets, updates, written, index, transcript>>

\* what the model of the follow-up agent may answer: the arguments of
\* mark_case_resolved are the model's, any case id it has been told or has
\* made up (a record's id, or one past the table: no record)
ResolveOutputs(pos) ==
    { AIMessage("reply", <<>>) } \cup
    { AIMessage("", << [id |-> <<pos, 1>>, name |-> "mark_case_resolved", arg |-> "medical", case |-> c] >>) :
        c \in 1..(Len(cases) + 1) }

generateOwners(r) ==
    generate_node(r, IF callsUsed < MaxToolCalls
                     THEN IF Kind(req[r].th) = "followup"
                          THEN ResolveOutputs(Len(req[r].msgs) + 1)
                          ELSE SubmitOutputs(Len(req[r].msgs) + 1)
                     ELSE { AIMessage("reply", <<>>) })

NextOwners ==
    \E r \in Reqs :
        \/ StartDomainTurn(r)
        \/ \E emergency_id \in 1..(Len(cases) + 1), emergency_type \in {"medical", "police", "weather"},
              user_id \in Users :
             chat_with_followup_agent(r, emergency_id, emergency_type, user_id)
        \/ ApplyInput(r)
        \/ FollowupUpdateState(r)
        \/ FollowupInvoke(r)
        \/ FollowupInvokeNoTask(r)
        \/ generateOwners(r)
        \/ tools(r)
        \/ save_history(r)
        \/ Return(r)

SpecOwners == InitOwners /\ [][NextOwners]_vars

\* The authority's status endpoint on its own: the case store holds up to
\* MaxCases cases, and status updates arrive for any id and any status string.
\* trip holds the last request and its answer.
StatusValues == { Statuses[i] : i \in 1..Len(Statuses) }

\* a mapping that also asks for a resolution approval when the case is
\* already set to RESOLVED
notification_type_resolved(new_status) ==
    IF new_status = "IN_PROGRESS" THEN "status_update"
    ELSE IF new_status \in {"REQUESTED_FOR_RESOLUTION", "RESOLVED"} THEN "resolution_request"
    ELSE None

\* update_<domain>_emergency_status: the notification_type of the
\* notification a new status calls for (None: no notification)
notification_type(new_status) ==
    IF new_status = "IN_PROGRESS" THEN "status_update"
    ELSE IF new_status = "REQUESTED_FOR_RESOLUTION" THEN "resolution_request"
    ELSE None

InitAuthority ==
    /\ \E n \in 1..MaxCases : \E domains \in [1..n -> {"medical", "electricity"}] :
         cases = [i \in 1..n |-> [domain |-> domains[i], user_id |-> "default_user",
                                  status |-> "NOT_ASSIGNED", location |-> "address"]]
    /\ trip = [pc |-> "authority", emergency_id |-> 0, new_status |-> None, code |-> 0]
    /\ store = [t \in Threads |-> EmptyCheckpoint]
    /\ req = [r \in Reqs |-> IdleReq]
    /\ turns = 0
    /\ callsUsed = 0
    /\ faults = 0
    /\ nextUtt = [t \in Threads |-> 1]
    /\ history = [t \in Threads |-> <<>>]
    /\ deleted = <<>>
    /\ notifs = <<>>
    /\ resets = 0
    /\ updates = 0
    /\ written = <<>>
    /\ index = SourceChunks
    /\ transcript = NoTranscript

\* update_electricity_emergency_status, every way out of it: 400 for a string
\* that is no EmergencyStatus, 404 when update_emergency_status returns False
\* (no such row in the table, or the database raised: fails = "update"), then
\* the notification for the case's user; an exception of create_notification
\* (fails = "notify") is answered 500 after the status has been written
update_electricity_emergency_status(emergency_id, new_status, fails) ==
    /\ updates < MaxUpdates
    /\ fails # "none" => faults < MaxFaults
    /\ LET upd == update_emergency_status(cases, emergency_id, "electricity", new_status,
                                          fails = "update")
           kind == notification_type(new_status)
           code == IF new_status \notin StatusValues THEN 400
                   ELSE IF ~upd.success THEN 404
                   ELSE IF kind # None /\ fails = "notify" THEN 500
                   ELSE 200
       IN  /\ fails = "update" => new_status \in StatusValues
           /\ fails = "notify" => code = 500
           /\ cases' = IF code \in {200, 500} THEN upd.cases ELSE cases
           /\ notifs' = IF code = 200 /\ kind # None
                        THEN create_notification(notifs, cases[emergency_id].user_id, kind,
                                                 emergency_id, "electricity")
                        ELSE notifs
           /\ trip' = [pc |-> "authority", emergency_id |-> emergency_id,
                       new_status |-> new_status, code |-> code]
    /\ faults' = IF fails = "none" THEN faults ELSE faults + 1
    /\ updates' = updates + 1
    /\ UNCHANGED <<store, req, turns, callsUsed, nextUtt,
                 history, deleted, resets, written, index, transcript>>

NextAuthority ==
    \E emergency_id \in 1..(Len(cases) + 1), new_status \in StatusValues \cup {"DONE"},
       fails \in {"none", "update", "notify"} :
        update_electricity_emergency_status(emergency_id, new_status, fails)

SpecAuthority == InitAuthority /\ [][NextAuthority]_vars

\* A longer conversation with a domain agent: the model may put up to
\* MaxCalls ToolCalls into a message, MaxDomainCalls in all, and the caller
\* sends one request at a time.
generateWindow(r) ==
    generate_node(r, LLMOutputs(Kind(req[r].th), req[r].eid, Len(req[r].msgs) + 1,
                                MaxDomainCalls - callsUsed))

NextWindow ==
    \E r \in Reqs :
        \/ StartDomainTurn(r)
        \/ ApplyInput(r)
        \/ generateWindow(r)
        \/ tools(r)
        \/ save_history(r)
        \/ Return(r)

SpecWindow == Init /\ [][NextWindow]_vars

\* The display history with its writers: the chat endpoint answers and leaves
\* save_history to a background task, which loads the list and then writes
\* the whole list back; tasks of different requests and the delete-chat
\* endpoint run at any moment.  trip holds the tasks, whether the thread has
\* a chat_collection record, and the answer of the last delete-chat request.
InitHistory ==
    /\ trip = [pc |-> "history", tasks |-> <<>>, recorded |-> FALSE, answer |-> None]
    /\ store = [t \in Threads |-> EmptyCheckpoint]
    /\ cases = << [domain |-> "medical", user_id |-> "default_user", status |-> "NOT_ASSIGNED",
                   location |-> "address"] >>
    /\ req = [r \in Reqs |-> IdleReq]
    /\ turns = 0
    /\ callsUsed = 0
    /\ faults = 0
    /\ nextUtt = [t \in Threads |-> 1]
    /\ history = [t \in Threads |-> <<>>]
    /\ deleted = <<>>
    /\ notifs = <<>>
    /\ resets = 0
    /\ updates = 0
    /\ written = <<>>
    /\ index = SourceChunks
    /\ transcript = NoTranscript

\* <agent>_chat_endpoint after respond: background_tasks.add_task(save_history,
\* user_id, user_message, bot_response) and the 200 answer; the worker is free
add_task(r) ==
    /\ req[r].pc = "done"
    /\ Kind(req[r].th) # "followup"
    /\ trip' = [trip EXCEPT !.tasks = Append(@, [th |-> req[r].th, utt |-> req[r].utt,
                                                  reply |-> req[r].reply, pc |-> "queued",
                                                  messages |-> <<>>])]
    /\ req' = [req EXCEPT ![r] = IdleReq]
    /\ UNCHANGED <<store, cases, turns, callsUsed, faults, nextUtt,
                 history, deleted, notifs, resets, updates, written, index, transcript>>

\* save_history, first half: messages = load_history(user_id)
load_history(k) ==
    /\ trip.tasks[k].pc = "queued"
    /\ trip' = [trip EXCEPT !.tasks[k].pc = "loaded",
                            !.tasks[k].messages = history[trip.tasks[k].th]]
    /\ UNCHANGED <<store, cases, req, turns, callsUsed, faults, nextUtt,
                 history, deleted, notifs, resets, updates, written, index, transcript>>

\* save_history, second half: the pair is appended to the list that was
\* loaded and update_one({"$set": {"history": messages}}, upsert=True) writes
\* the whole list
update_one(k) ==
    /\ trip.tasks[k].pc = "loaded"
    /\ history' = [history EXCEPT ![trip.tasks[k].th] =
                      trip.tasks[k].messages \o
                          << [role |-> "user", content |-> "utterance", utt |-> trip.tasks[k].utt],
                             [role |-> "bot", content |-> trip.tasks[k].reply, utt |-> 0] >>]
    /\ trip' = [trip EXCEPT !.tasks[k].pc = "saved", !.recorded = TRUE]
    /\ UNCHANGED <<store, cases, req, turns, callsUsed, faults, nextUtt,
                 deleted, notifs, resets, updates, written, index, transcript>>

\* delete_and_archive_<domain>_emergency_chat, every way out of it: 404 when
\* the thread has no chat_collection record, 200 "already reset" when its
\* history is empty (the checkpoints are left alone in both), else as
\* delete_and_archive_chat
delete_and_archive_electricity_emergency_chat(t) ==
    /\ resets < MaxResets
    /\ IF ~trip.recorded
       THEN /\ trip' = [trip EXCEPT !.answer = "User chat history not found"]
            /\ UNCHANGED <<store, faults, deleted, history>>
       ELSE IF history[t] = <<>>
       THEN /\ trip' = [trip EXCEPT !.answer = "Chat history is already reset"]
            /\ UNCHANGED <<store, faults, deleted, history>>
       ELSE /\ \E fails \in BOOLEAN :
                 /\ fails => faults < MaxFaults
                 /\ store' = IF fails THEN store ELSE [store EXCEPT ![t] = EmptyCheckpoint]
                 /\ faults' = IF fails THEN faults + 1 ELSE faults
            /\ deleted' = Append(deleted, [thread |-> t, history |-> history[t]])
            /\ history' = [history EXCEPT ![t] = <<>>]
            /\ trip' = [trip EXCEPT !.answer = "Chat history reset successfully."]
    /\ resets' = resets + 1
    /\ UNCHANGED <<cases, req, turns, callsUsed, nextUtt, notifs, updates, written, index, transcript>>

NextHistory ==
    \/ delete_and_archive_electricity_emergency_chat("med")
    \/ \E k \in 1..Len(trip.tasks) : load_history(k)
    \/ \E k \in 1..Len(trip.tasks) : update_one(k)
    \/ \E r \in Reqs :
        \/ StartDomainTurn(r)
        \/ ApplyInput(r)
        \/ generateSingle(r)
        \/ tools(r)
        \/ add_task(r)
        \/ Return(r)

SpecHistory == InitHistory /\ [][NextHistory]_vars

(* ------------------------- auxiliary definitions ----------------------- *)
\* every message log there is: the stored ones and those requests hold
AllLogs == { store[t].log : t \in Threads } \cup { req[r].msgs : r \in Reqs }

HasToolCalls(m) == m.role = "ai" /\ Len(m.calls) > 0

\* the Tool message m answers a submit_case call
IsSubmitResult(m) == m.role = "tool" /\ m.content \in {SubmitOkText, SubmitErrText}

\* request r has just left the tools node normally
ToolsDone(r) == req[r].pc = "tools" /\ req'[r].pc = "generate"

\* the ToolCalls the tools node of r works on, and the Tool messages it appended
DispatchedCalls(r) == req[r].msgs[Len(req[r].msgs)].calls
AppendedResults(r) == SubSeq(req'[r].msgs, Len(req[r].msgs) + 1, Len(req'[r].msgs))

\* the number of User messages of a log that carry utterance u
Occurrences(log, u) ==
    Cardinality({ i \in 1..Len(log) : log[i].role = "user" /\ log[i].utt = u })

(* -------------------------------- claims ------------------------------- *)

\* C1: two submit_case calls on a thread with no user message in between
\* leave one case record, and the Tool message of the second call carries
\* the case id the first call created.
C1_SecondSubmitReturnsFirstId ==
    \A log \in AllLogs : \A i, j \in 1..Len(log) :
        ( /\ i < j
          /\ IsSubmitResult(log[i]) /\ IsSubmitResult(log[j])
          /\ log[i].cid # 0
          /\ \A k \in i..j : log[k].role # "user" )
        => log[j].cid = log[i].cid

\* C2: the Tool messages that follow an assistant message stand in the
\* order in which that message lists the ToolCalls they answer.
C2_ToolMessagesInEmissionOrder ==
    \A log \in AllLogs : \A k \in 1..Len(log) :
        HasToolCalls(log[k]) =>
            \A q \in (k + 2)..Len(log) : \A p \in (k + 1)..(q - 1) :
                (\A m \in (k + 1)..q : log[m].role = "tool")
                => \E a, b \in 1..Len(log[k].calls) :
                      /\ log[k].calls[a].id = log[p].tcid
                      /\ log[k].calls[b].id = log[q].tcid
                      /\ a < b

\* C2 witness: a stored log in which an assistant message with two
\* ToolCalls is followed by two Tool messages
C2_Witness ==
    \E t \in Threads : \E k \in 1..Len(store[t].log) :
        /\ Len(store[t].log[k].calls) >= 2
        /\ k + 2 <= Len(store[t].log)
        /\ store[t].log[k + 1].role = "tool"
        /\ store[t].log[k + 2].role = "tool"

\* C3: when the tools node has handled an assistant message, the log holds
\* exactly one Tool message for each of its ToolCalls.
C3_OneToolMessagePerCall ==
    [][ \A r \in Reqs : ToolsDone(r) =>
          \A c \in 1..Len(DispatchedCalls(r)) :
             Cardinality({ i \in 1..Len(AppendedResults(r)) :
                             AppendedResults(r)[i].tcid = DispatchedCalls(r)[c].id }) = 1 ]_vars

\* C4: a ToolCall whose name is in no tool table gets a Tool message with an
\* error payload, and the other ToolCalls of the message are answered too.
C4_UnknownToolAnswered ==
    [][ \A r \in Reqs :
          ( /\ ToolsDone(r)
            /\ \E c \in 1..Len(DispatchedCalls(r)) :
                  DispatchedCalls(r)[c].name \notin tools_by_name(Kind(req[r].th)) )
          => \A c \in 1..Len(DispatchedCalls(r)) :
                \E i \in 1..Len(AppendedResults(r)) :
                    AppendedResults(r)[i].tcid = DispatchedCalls(r)[c].id ]_vars

\* C5: every Tool message of every log answers a ToolCall of the nearest
\* preceding assistant message, with nothing but Tool messages in between.
C5_NoDanglingToolMessage ==
    \A log \in AllLogs : \A p \in 1..Len(log) :
        log[p].role = "tool" =>
            \E k \in 1..(p - 1) :
                /\ log[k].role = "ai"
                /\ \A m \in (k + 1)..(p - 1) : log[m].role = "tool"
                /\ \E c \in 1..Len(log[k].calls) : log[k].calls[c].id = log[p].tcid

\* C5 witness: a stored log holds a Tool message behind an earlier turn, so
\* the assistant message it answers is not the first of the log
C5_Witness ==
    \E t \in Threads : \E p \in 1..Len(store[t].log) :
        /\ store[t].log[p].role = "tool"
        /\ \E i, j \in 1..(p - 1) : i < j /\ store[t].log[i].role = "user" /\ store[t].log[j].role = "user"

\* C6: two turns of one thread are never in progress at the same time.
C6_TurnsOfAThreadSequential ==
    \A r1, r2 \in Reqs :
        (r1 # r2 /\ InProgress(r1) /\ InProgress(r2)) => req[r1].th # req[r2].th

\* C7: a checkpoint write by a turn that holds a stale version changes
\* nothing (it is rejected), and no step removes a user message from a
\* stored log.
C7_StaleCommitRejected ==
    [][ \A t \in Threads :
          /\ \A r \in Reqs :
                (req[r].th = t /\ req[r].pc \in {"generate", "tools"} /\ req[r].msgs # store[t].log
                   /\ req'[r] # req[r])
                => store'[t] = store[t]
          /\ \A i \in 1..Len(store[t].log) :
                store[t].log[i].role = "user" =>
                    Occurrences(store'[t].log, store[t].log[i].utt) >= 1 ]_vars

\* C8: the stored log of a thread is always a log between two turns: empty,
\* or ending in an assistant reply without ToolCalls.
C8_NoIntermediateLogVisible ==
    \A t \in Threads :
        \/ store[t].log = <<>>
        \/ /\ store[t].log[Len(store[t].log)].role = "ai"
           /\ ~HasToolCalls(store[t].log[Len(store[t].log)])

\* C9: a turn in which generation, retrieval or the case store failed ends
\* as a failure, with the thread's checkpoint as it was when the turn began.
C9_FailedTurnLeavesCheckpoint ==
    \A r \in Reqs :
        (req[r].fault \in {"generation", "retrieval", "store"} /\ ~InProgress(r))
        => /\ req[r].pc = "failed"
           /\ store[req[r].th] = req[r].loaded

\* C10: a turn replayed after a crash commits what an uninterrupted run
\* commits: a log in which the turn's user message occurs once.
C10_ReplayAfterCrashSameState ==
    \A r \in Reqs :
        (req[r].pc = "done" /\ req[r].prev = "crash")
        => Occurrences(req[r].msgs, req[r].utt) = 1

(* ----------------------- auxiliary definitions, 2 ---------------------- *)
IsPrefix(a, b) == Len(a) <= Len(b) /\ SubSeq(b, 1, Len(a)) = a

\* the messages request r has added to the log it loaded
TurnMessages(r) == SubSeq(req[r].msgs, Len(req[r].loaded.log) + 1, Len(req[r].msgs))

\* request r's turn holds a classify_emergency_type call
ClassifiedIn(r) ==
    \E i \in 1..Len(TurnMessages(r)) : \E c \in 1..Len(TurnMessages(r)[i].calls) :
        TurnMessages(r)[i].calls[c].name = "classify_emergency_type"

\* the last value of a sequence of writes that holds a value (None: none does)
RECURSIVE LastHeld(_)
LastHeld(seq) ==
    IF seq = <<>> THEN None
    ELSE IF seq[Len(seq)] \notin {None, ""} THEN seq[Len(seq)]
    ELSE LastHeld(SubSeq(seq, 1, Len(seq) - 1))

\* the assistant messages request r's turn has produced: its generation calls
Generations(r) ==
    Cardinality({ i \in 1..Len(TurnMessages(r)) : TurnMessages(r)[i].role = "ai" })

StatusRank(status) == CHOOSE i \in 1..Len(Statuses) : Statuses[i] = status

\* C11: every write of a thread's checkpoint (a history reset aside) stores
\* a version above the one stored before, so no version repeats or goes back.
C11_VersionStrictlyIncreases ==
    [][ \A t \in Threads :
          (store'[t] # store[t] /\ store'[t] # EmptyCheckpoint)
          => store'[t].ver > store[t].ver ]_vars

\* C12: a triage turn that starts with emergency_type X and makes no
\* classification call ends with X stored and reports X in its response.
C12_TriageKeepsEmergencyType ==
    \A r \in Reqs :
        ( /\ req[r].pc = "done"
          /\ Kind(req[r].th) = "triage"
          /\ req[r].loaded.et # None
          /\ ~ClassifiedIn(r) )
        => /\ store[req[r].th].et = req[r].loaded.et
           /\ req[r].section = req[r].loaded.et

\* C12 witness: a triage turn without classification has ended on a thread
\* that an earlier turn classified
C12_Witness ==
    \E r \in Reqs :
        /\ req[r].pc = "done"
        /\ Kind(req[r].th) = "triage"
        /\ req[r].loaded.et = "Medical"
        /\ ~ClassifiedIn(r)
        /\ Len(TurnMessages(r)) >= 2

\* C13: keep_last returns the right value when both sides hold one, the
\* side that holds one when only one does, None when neither does; after any
\* sequence of writes the channel holds the last written value that holds one.
C13_KeepLastIsLastHeldValue ==
    /\ \A left, right \in EmergencyValues :
          keep_last(left, right) =
              IF right \notin {None, ""} THEN right
              ELSE IF left \notin {None, ""} THEN left
              ELSE None
    /\ Len(written) > 1 => store["tri"].et = LastHeld(written)

\* C13 witness: a value was written over an earlier one and a write of None
\* followed
C13_Witness ==
    /\ Len(written) >= 4
    /\ written[2] = "Medical"
    /\ written[3] = "Police"
    /\ written[4] = None
    /\ store["tri"].et = "Police"

\* C14: the input of every generation call is the agent's instructions
\* followed by the last 6 messages of the log in log order (the whole log
\* when it has 6 or fewer).
C14_GenerationSeesLastSix ==
    \A r \in Reqs :
        (req[r].pc \in {"tools", "done"} /\ req[r].prompt # <<>>)
        => LET log == SubSeq(req[r].msgs, 1, Len(req[r].msgs) - 1)
               n == IF Len(log) <= 6 THEN Len(log) ELSE 6
           IN  /\ Len(req[r].prompt) = n + 1
               /\ req[r].prompt[1].content = Kind(req[r].th)
               /\ \A i \in 1..n : req[r].prompt[i + 1] = log[Len(log) - n + i]

\* C14 witness: a generation call was made on a log of more than 6 messages
C14_Witness ==
    \E r \in Reqs :
        /\ req[r].pc \in {"tools", "done"}
        /\ req[r].prompt # <<>>
        /\ Len(req[r].msgs) - 1 > 6

C16_ReplyFollowsFinalGeneration ==
    \A r \in Reqs :
        req[r].pc = "done"
        => /\ req[r].msgs[Len(req[r].msgs)].role = "ai"
           /\ ~HasToolCalls(req[r].msgs[Len(req[r].msgs)])

\* C17: the log a turn has committed, at every step and at its end, has the
\* log the turn loaded as a prefix.
C17_CommittedLogExtendsLoaded ==
    \A r \in Reqs :
        req[r].pc \in {"invoke", "generate", "tools", "done"}
        => /\ IsPrefix(req[r].loaded.log, store[req[r].th].log)
           /\ Len(store[req[r].th].log) > Len(req[r].loaded.log)

\* C17 witness: a turn has ended on a thread whose log was not empty when
\* the turn began
C17_Witness ==
    \E r \in Reqs :
        /\ req[r].pc = "done"
        /\ Len(req[r].loaded.log) >= 2
        /\ Len(store[req[r].th].log) >= Len(req[r].loaded.log) + 2

\* C18: a step changes the checkpoint of one thread at most; a step of a
\* request changes only the checkpoint of the request's thread, and a
\* history reset only that of the thread it names.
C18_OtherThreadsUnchanged ==
    [][ /\ Cardinality({ t \in Threads : store'[t] # store[t] }) <= 1
        /\ \A r \in Reqs : req'[r] # req[r] =>
              \A t \in Threads : store'[t] # store[t] => t = req'[r].th
        /\ \A t \in Threads : (history[t] # <<>> /\ history'[t] = <<>>) =>
              \A u \in Threads \ {t} : store'[u] = store[u] ]_vars

\* C18 witness: turns of two threads are in progress at once, each having
\* written to its thread's checkpoint
C18_Witness ==
    \E r1, r2 \in Reqs :
        /\ req[r1].th # req[r2].th
        /\ req[r1].pc \in {"generate", "tools"}
        /\ req[r2].pc \in {"generate", "tools"}
        /\ store[req[r1].th].ver > 0
        /\ store[req[r2].th].ver > 0

\* C19: no step moves the status of a case to an earlier status of
\* NOT_ASSIGNED, IN_PROGRESS, REQUESTED_FOR_RESOLUTION, RESOLVED.
C19_StatusOnlyMovesForward ==
    [][ \A i \in 1..Len(cases) :
          StatusRank(cases'[i].status) >= StatusRank(cases[i].status) ]_vars

\* C20: a submission whose draft lacks a required field creates no case
\* record: every stored case has its location.
C20_NoCaseWithMissingField ==
    \A i \in 1..Len(cases) : cases[i].location # None

(* ----------------------- auxiliary definitions, 3 ---------------------- *)
\* the arguments of the call do not fit the tool it names
Malformed(kind, call) ==
    CASE kind = "domain" -> call.name = "info_retriever" /\ call.arg = None
      [] kind = "triage" -> call.name = "classify_emergency_type" /\ call.arg = None
      [] OTHER           -> call.name = "mark_case_resolved" /\ (call.case = 0 \/ call.arg = None)

\* a step of request r out of the tools node in which no service failed and
\* the process did not die
ToolsStep(r) == req[r].pc = "tools" /\ req'[r] # req[r] /\ faults' = faults

\* the Tool messages of the step that answer call c of the dispatched list
AnswersTo(r, c) ==
    { i \in 1..Len(AppendedResults(r)) : AppendedResults(r)[i].tcid = DispatchedCalls(r)[c].id }

\* C21: a tools step over a message with a ToolCall whose arguments are
\* missing or malformed goes on to generation, with an error Tool message for
\* that call and a Tool message for every other registered call of the message.
C21_MalformedCallContained ==
    [][ \A r \in Reqs :
          ( /\ ToolsStep(r)
            /\ \E c \in 1..Len(DispatchedCalls(r)) : Malformed(Kind(req[r].th), DispatchedCalls(r)[c]) )
          => /\ ToolsDone(r)
             /\ \A c \in 1..Len(DispatchedCalls(r)) :
                   IF Malformed(Kind(req[r].th), DispatchedCalls(r)[c])
                   THEN \E i \in AnswersTo(r, c) : AppendedResults(r)[i].content = MissingArgsText
                   ELSE DispatchedCalls(r)[c].name \in tools_by_name(Kind(req[r].th))
                        => AnswersTo(r, c) # {} ]_vars

\* C22: a tools step in which the retrieval of a call fails goes on to
\* generation, and the Tool message that answers the call holds an error in
\* place of documents.
C22_RetrievalFailureContained ==
    [][ \A r \in Reqs :
          ( /\ req[r].pc = "tools"
            /\ req'[r] # req[r]
            /\ faults' > faults
            /\ req'[r].fault = "retrieval" )
          => /\ ToolsDone(r)
             /\ \E c \in 1..Len(DispatchedCalls(r)) :
                   /\ DispatchedCalls(r)[c].name = "info_retriever"
                   /\ \E i \in AnswersTo(r, c) : AppendedResults(r)[i].content # "documents" ]_vars

\* the ToolCalls request r's tools node works on are retrievals (and names
\* in no tool table), at least one of them a retrieval
RetrievalsOnly(r) ==
    /\ Kind(req[r].th) = "domain"
    /\ req[r].pc = "tools"
    /\ \E c \in 1..Len(DispatchedCalls(r)) : DispatchedCalls(r)[c].name = "info_retriever"
    /\ \A c \in 1..Len(DispatchedCalls(r)) : DispatchedCalls(r)[c].name # "submit_case"

\* C23: a tools step that runs retrievals only, however many, leaves the
\* knowledge index, the case-record store, the thread's extra state and the
\* other threads as they were; what it adds to the thread's log are Tool
\* messages for those calls.
C23_RetrievalChangesOnlyToolMessages ==
    [][ \A r \in Reqs :
          (RetrievalsOnly(r) /\ req'[r] # req[r])
          => /\ index' = index
             /\ cases' = cases
             /\ req'[r].et = req[r].et
             /\ store'[req[r].th].et = store[req[r].th].et
             /\ \A u \in Threads \ {req[r].th} : store'[u] = store[u]
             /\ IsPrefix(req[r].msgs, req'[r].msgs)
             /\ \A i \in 1..Len(AppendedResults(r)) :
                   /\ AppendedResults(r)[i].role = "tool"
                   /\ \E c \in 1..Len(DispatchedCalls(r)) :
                         /\ DispatchedCalls(r)[c].name = "info_retriever"
                         /\ DispatchedCalls(r)[c].id = AppendedResults(r)[i].tcid
             /\ ToolsDone(r) => store'[req[r].th].log = req'[r].msgs ]_vars

\* C23 witness: the tools node has answered a message of two retrieval calls
C23_Witness ==
    \E r \in Reqs : \E k \in 1..Len(req[r].msgs) :
        /\ req[r].pc = "generate"
        /\ k + 2 = Len(req[r].msgs)
        /\ Len(req[r].msgs[k].calls) = 2
        /\ \A c \in 1..2 : req[r].msgs[k].calls[c].name = "info_retriever"
        /\ \A m \in (k + 1)..(k + 2) : req[r].msgs[m].content = "documents"
        /\ index = SourceChunks

\* the positions of a log whose message belongs in a transcript: a user
\* message, or an assistant message whose content is not blank
InTranscript(log) ==
    { i \in 1..Len(log) :
        \/ log[i].role = "user"
        \/ log[i].role = "ai" /\ log[i].content \notin {"", " ", "  "} }

\* C24: the transcript of a log holds one entry for every user message and
\* every assistant message with non-blank content, tagged with its role, in
\* log order, and nothing for tool messages and for assistant messages
\* without content.
C24_TranscriptIsRoleTaggedLog ==
    transcript.made =>
        LET log == store["med"].log
            kept == InTranscript(log)
        IN  /\ Len(transcript.entries) = Cardinality(kept)
            /\ \A i \in kept :
                  LET entry == transcript.entries[Cardinality({ j \in kept : j <= i })] IN
                  /\ entry.tag = (IF log[i].role = "user" THEN "Human" ELSE "AI")
                  /\ entry.content = log[i].content
                  /\ entry.utt = log[i].utt

\* C24 witness: the transcript of a log of a user message, a tool-calling
\* assistant message, its Tool message and an assistant reply has two entries
C24_Witness ==
    /\ transcript.made
    /\ Len(store["med"].log) = 4
    /\ store["med"].log[1].role = "user"
    /\ HasToolCalls(store["med"].log[2]) /\ store["med"].log[2].content = ""
    /\ store["med"].log[3].role = "tool"
    /\ store["med"].log[4] = AIMessage("reply", <<>>)
    /\ Len(transcript.entries) = 2

\* request r's tools node has run a submission and gone on
SubmissionDone(r) ==
    /\ ToolsDone(r)
    /\ \E i \in 1..Len(AppendedResults(r)) : IsSubmitResult(AppendedResults(r)[i])

\* C25: the submission call carries no argument, and the transcript it hands
\* to the extraction has an entry for every user message of the thread's
\* log, those before the last 6 messages included.
C25_SubmissionReadsWholeLog ==
    [][ \A r \in Reqs :
          SubmissionDone(r)
          => /\ \A c \in 1..Len(DispatchedCalls(r)) :
                   DispatchedCalls(r)[c].name = "submit_case" => DispatchedCalls(r)[c].arg = None
             /\ transcript'.made
             /\ \A i \in 1..Len(req[r].msgs) :
                   req[r].msgs[i].role = "user"
                   => \E e \in 1..Len(transcript'.entries) :
                         /\ transcript'.entries[e].tag = "Human"
                         /\ transcript'.entries[e].utt = req[r].msgs[i].utt ]_vars

\* C25 witness: a submission has run on a log of more than 6 messages whose
\* first user message lies before the window and is in the transcript
C25_Witness ==
    \E r \in Reqs :
        /\ req[r].pc = "generate"
        /\ IsSubmitResult(req[r].msgs[Len(req[r].msgs)])
        /\ Len(req[r].msgs) - 1 > WindowSize
        /\ req[r].msgs[1].role = "user"
        /\ Occurrences(req[r].msgs, req[r].msgs[1].utt) = 1
        /\ transcript.made
        /\ transcript.entries[1].tag = "Human"
        /\ transcript.entries[1].utt = req[r].msgs[1].utt

\* C26: a draft handed to the store gets a case id, and reading that id back
\* in the draft's domain gives a record whose fields hold the draft's values.
C26_CaseCreationRoundTrips ==
    trip.pc = "fetched" =>
        /\ trip.case_id # 0
        /\ trip.fetched.found
        /\ \A f \in SchemaFields(trip.domain) :
              /\ f \in DOMAIN trip.fetched.row
              /\ trip.fetched.row[f] = trip.draft[f]

\* the value is given by a user message of the transcript
Traceable(value, entries) ==
    \E e \in 1..Len(entries) : entries[e].tag = "Human" /\ entries[e].content = value

\* C27: every field of a case a submission stores is null or holds a value
\* that a user message of the submission's transcript gives.
C27_StoredFieldsTraceable ==
    [][ \A i \in (Len(cases) + 1)..Len(cases') :
          cases'[i].location # None => Traceable(cases'[i].location, transcript'.entries) ]_vars

\* C28: the reply of a finished turn of a domain or triage agent is the
\* content of the turn's last assistant message and nothing more.
C28_ReplyIsAnsweringContent ==
    \A r \in Reqs :
        (req[r].pc = "done" /\ Kind(req[r].th) # "followup")
        => /\ req[r].msgs[Len(req[r].msgs)].role = "ai"
           /\ req[r].reply = <<req[r].msgs[Len(req[r].msgs)].content>>

\* the delete-chat endpoint has answered "Chat history reset successfully."
\* for thread t in this step
ResetAnswered(t) ==
    /\ Kind(t) # "followup"
    /\ resets' = resets + 1
    /\ history[t] # <<>>
    /\ history'[t] = <<>>

\* C29: a reset of a thread that is answered with success leaves no
\* checkpoint of the thread, the history as it was in the archive and the
\* display history empty.
C29_ResetDeletesArchivesEmpties ==
    [][ \A t \in Threads :
          ResetAnswered(t)
          => /\ store'[t] = EmptyCheckpoint
             /\ Len(deleted') = Len(deleted) + 1
             /\ deleted'[Len(deleted')] = [thread |-> t, history |-> history[t]]
             /\ history'[t] = <<>> ]_vars

\* clear_conversation_history has answered with success for thread t in
\* this step
ClearAnswered(t) ==
    /\ Kind(t) = "followup"
    /\ resets' = resets + 1
    /\ store'[t] # store[t]

\* C30: right after clear_conversation_history has succeeded for a follow-up
\* thread, get_conversation_history of the thread reports no message.
C30_ClearedThreadHasNoMessages ==
    [][ \A t \in Threads :
          ClearAnswered(t)
          => /\ get_conversation_history(store', t).message_count = 0
             /\ get_conversation_history(store', t).conversation = <<>> ]_vars

(* ------------------------- auxiliary definitions, 4 -------------------- *)
\* the step stores the approval "true" on notification n, which had none
ApprovedNow(n) ==
    /\ Len(notifs') = Len(notifs)
    /\ notifs[n].is_approved # "true"
    /\ notifs'[n].is_approved = "true"

\* notification n names a case of the case store
NamesExistingCase(n) ==
    /\ notifs[n].emergency_id \in 1..Len(cases)
    /\ cases[notifs[n].emergency_id].domain = notifs[n].emergency_type

\* C31: when the approval endpoint is called with is_approved "true" for a
\* notification that names an existing case, that case is RESOLVED when the
\* endpoint returns, whichever user the notification belongs to.
C31_ApprovalResolvesCase ==
    [][ \A n \in 1..Len(notifs) :
          (ApprovedNow(n) /\ NamesExistingCase(n))
              => cases'[notifs[n].emergency_id].status = "RESOLVED" ]_vars

\* the step is a follow-up request reaching chat_with_followup_agent: a
\* request is taken up and no worker starts a turn of another thread
FollowupRequested ==
    /\ turns' = turns + 1
    /\ \A r \in Reqs : req'[r].pc # "idle" => req'[r].th = "fol"

\* the case a follow-up request names is in the case store
RequestedCaseExists ==
    /\ trip'.emergency_id \in 1..Len(cases)
    /\ cases[trip'.emergency_id].domain = trip'.emergency_type

\* C32: a follow-up request for a case that does not exist is answered 404,
\* one for a case of another user 403; in both cases the follow-up thread's
\* checkpoint is unchanged, no turn is started and no case changes.
C32_RejectedFollowupTouchesNothing ==
    [][ FollowupRequested =>
          /\ ~RequestedCaseExists => trip'.code = 404
          /\ ( /\ RequestedCaseExists
               /\ cases[trip'.emergency_id].user_id # trip'.user_id ) => trip'.code = 403
          /\ trip'.code \in {403, 404} =>
               /\ store' = store
               /\ cases' = cases
               /\ req' = req
               /\ notifs' = notifs ]_vars

\* C32 witness: a request was answered 403 on a follow-up thread that holds
\* the checkpoint of an earlier, accepted request.
C32_Witness ==
    /\ trip.pc = "owners"
    /\ trip.code = 403
    /\ store["fol"].ver > 0
    /\ \A r \in Reqs : req[r].pc = "idle"

\* C36: in a follow-up turn of a request verified for case E, the tools node
\* changes the status of no case but E.
C36_ResolvesOnlyVerifiedCase ==
    [][ \A r \in Reqs :
          (req[r].pc = "tools" /\ req[r].th = "fol")
              => \A i \in 1..Len(cases) :
                    cases'[i].status # cases[i].status => i = req[r].eid ]_vars

\* C37: a case created by a submission in the conversation thread of user U
\* is stored with user_id U.
C37_CaseStoredUnderThreadUser ==
    [][ \A i \in (Len(cases) + 1)..Len(cases') :
          cases'[i].user_id = trip.chat_user ]_vars

\* the step is a status update answered by the authority endpoint
AuthorityAnswered == updates' = updates + 1 /\ trip'.pc = "authority"

\* the notifications the step added
AddedNotifications == SubSeq(notifs', Len(notifs) + 1, Len(notifs'))

\* the step added exactly one notification, of that type, for the user of
\* the case the request names
OneNotification(type) ==
    /\ Len(AddedNotifications) = 1
    /\ AddedNotifications[1].notification_type = type
    /\ AddedNotifications[1].user_id = cases[trip'.emergency_id].user_id
    /\ AddedNotifications[1].emergency_id = trip'.emergency_id

AnsweredInside(input, i) ==
    \E j \in 1..(i - 1) :
        /\ input[j].role = "ai"
        /\ \E c \in 1..Len(input[j].calls) : input[j].calls[c].id = input[i].tcid

\* C34: every Tool message of the window handed to a generation step answers
\* a ToolCall of an assistant message inside the window.
C34_WindowKeepsToolCallPairs ==
    \A r \in Reqs : \A i \in 1..Len(req[r].prompt) :
        req[r].prompt[i].role = "tool" => AnsweredInside(req[r].prompt, i)

\* the Tool message m says that the case was submitted successfully
StatesSuccess(m) ==
    \E i \in 1..Len(Sentences(m.content)) :
        Sentences(m.content)[i] \in {"Case submitted successfully", "Case has been submitted successfully"}

\* C35: a Tool message with success wording carries the identifier of a
\* stored case record; a failed extraction or insert leaves no success wording.
C35_SuccessWordingOnlyWhenStored ==
    \A log \in AllLogs : \A i \in 1..Len(log) :
        (log[i].role = "tool" /\ StatesSuccess(log[i])) => log[i].cid \in 1..Len(cases)

\* the display history of thread t holds the user entry of utterance u,
\* followed by a bot entry
HasPair(t, u) ==
    \E i \in 1..(Len(history[t]) - 1) :
        /\ history[t][i].role = "user" /\ history[t][i].utt = u
        /\ history[t][i + 1].role = "bot"

\* C38: once the save_history tasks of the completed requests of a thread
\* have all run (and the history was not reset), the display history holds
\* the user/bot pair of every one of them.
C38_HistoryKeepsEveryPair ==
    ( /\ resets = 0
      /\ \A k \in 1..Len(trip.tasks) : trip.tasks[k].pc = "saved" )
        => \A k \in 1..Len(trip.tasks) : HasPair(trip.tasks[k].th, trip.tasks[k].utt)

\* C39: a delete-chat request for a thread with a committed checkpoint,
\* made when no turn is in progress and answered without a failure of the
\* checkpoint delete, leaves the thread without a checkpoint, wherever the
\* background save of the earlier turns stands.
C39_DeleteChatRemovesCheckpoint ==
    [][ ( /\ resets' = resets + 1
          /\ faults' = faults
          /\ \A r \in Reqs : req[r].pc = "idle"
          /\ store["med"].ver > 0 )
            => store'["med"] = EmptyCheckpoint ]_vars

====
